---- MODULE Spec2Model ----
(***************************************************************************)
(* Model of src/web_app.py: the BookkeepingProcessor pipeline              *)
(* (load_data, split_data, prepare_columns, create_excel_summary,          *)
(* save_excel, get_balance_validation, get_problematic_transactions) and   *)
(* the upload / download handlers that run it and keep app_sessions.       *)
(*                                                                         *)
(* A table cell is a pair <<tag, v>>:                                      *)
(*   <<"na", 0>>      a missing value (NaN / pd.NA)                        *)
(*   <<"num", n>>     a number held in a numeric column                    *)
(*   <<"numstr", n>>  the text of the number n, held in an object column   *)
(*   <<"str", k>>     non-numeric text (k = 0: "abc", k = 1: "nan")        *)
(* Money is counted in thousandths of a currency unit (100.00 = 100000).   *)
(* A date is <<year, month, day>>; its '%Y-%m-%d' text is zero padded, so  *)
(* the text order is the order of the triples.                             *)
(* A column that a table does not have holds the missing value in every    *)
(* row and is never read: the code that reads it raises KeyError, which    *)
(* the model shows as pc = "failed".                                       *)
(***************************************************************************)
EXTENDS Integers, Sequences, FiniteSets, TLC

VARIABLES
    csv_file,               \* the uploaded CSV, as raw text cells, with its name
    csv_columns,            \* the column names of the CSV's header line
    pc,                     \* position of the processor in process() + validation
    df,                     \* self.df
    new_filename,           \* self.new_filename
    without_advertisement,  \* self.without_advertisement
    advertisment,           \* self.advertisment
    rest,                   \* self.rest
    columns,                \* the column names of the three buckets
    excel_summary,          \* self.excel_summary
    output_path,            \* self.output_path
    validation,             \* result of get_balance_validation
    problematic,            \* result of get_problematic_transactions
    disk,                   \* files of the output directory: path -> content
    upl,                    \* the upload requests in flight (upload_file locals)
    app_sessions,           \* app_sessions
    downloaded              \* what download_file last sent, per session id

vars == <<csv_file, csv_columns, pc, df, new_filename, without_advertisement, advertisment,
          rest, columns, excel_summary, output_path, validation, problematic,
          disk, upl, app_sessions, downloaded>>

procVars == <<csv_file, csv_columns, pc, df, new_filename, without_advertisement, advertisment,
              rest, columns, excel_summary, output_path, validation, problematic>>

webVars == <<upl, app_sessions, downloaded>>

-----------------------------------------------------------------------------
(* Cells *)

NA == <<"na", 0>>

Num(n) == <<"num", n>>

NumStr(n) == <<"numstr", n>>

Text(k) == <<"str", k>>

IsNA(c) == c[1] = "na"

NotNA(c) == c[1] # "na"

\* pd.to_numeric(errors="coerce"): numbers and numeric text give the number,
\* anything else is missing.
ToNumeric(c) == IF c[1] \in {"num", "numstr"} THEN Num(c[2]) ELSE NA

\* Series.sum() / groupby sum of a numeric column: missing values are skipped.
Amount(c) == IF c[1] = "num" THEN c[2] ELSE 0

RECURSIVE SumSeq(_)
SumSeq(s) == IF s = <<>> THEN 0 ELSE Head(s) + SumSeq(Tail(s))

\* df[mask]: the rows whose mask entry is True, in order.
RECURSIVE MaskSelect(_, _)
MaskSelect(s, m) ==
    IF s = <<>> THEN <<>>
    ELSE (IF Head(m) THEN <<Head(s)>> ELSE <<>>) \o MaskSelect(Tail(s), Tail(m))

SetMax(S) == CHOOSE x \in S : \A y \in S : y <= x

-----------------------------------------------------------------------------
(* Dates *)

DateLeq(a, b) ==
    \/ a[1] < b[1]
    \/ a[1] = b[1] /\ a[2] < b[2]
    \/ a[1] = b[1] /\ a[2] = b[2] /\ a[3] <= b[3]

MinDate(S) == CHOOSE a \in S : \A b \in S : DateLeq(a, b)

MaxDate(S) == CHOOSE a \in S : \A b \in S : DateLeq(b, a)

\* strftime("%d.%m"): day and month, the year is not part of the text.
DayMonth(a) == <<a[3], a[2]>>

-----------------------------------------------------------------------------
(* load_data *)

CsvColumns ==
    {"InstallmentTransactionId", "InstallmentDate", "InstallmentProducts",
     "InstallmentPaymentPrice", "InstallmentProductPrice",
     "InstallmentPaymentExtRef", "InstallmentProductExtRef",
     "Installment Ticket Id", "InstallmentValueDate", "Installments"}

\* pd.read_csv on one cell: an empty field and the text "nan" are missing values.
ReadCell(c, object) ==
    IF c[1] = "na" \/ c = Text(1) THEN NA
    ELSE IF c[1] = "num" /\ object THEN NumStr(c[2])
    ELSE c

\* pd.read_csv infers one dtype per column: a column holding any non-numeric
\* text is an object column and keeps every field as text.
IsObjectColumn(rows, col) ==
    \E i \in 1..Len(rows) : rows[i][col][1] = "str" /\ rows[i][col] # Text(1)

ReadCsv(rows) ==
    [i \in 1..Len(rows) |->
        [rows[i] EXCEPT
            !.InstallmentPaymentExtRef =
                ReadCell(@, IsObjectColumn(rows, "InstallmentPaymentExtRef")),
            !.InstallmentProductExtRef =
                ReadCell(@, IsObjectColumn(rows, "InstallmentProductExtRef"))]]

\* self.df['InstallmentDate']: KeyError when the file has no such column.
LoadRaises(cols) == "InstallmentDate" \notin cols

DatesOf(rows) == {rows[i].InstallmentDate : i \in 1..Len(rows)}

NewFilename(rows) ==
    <<"journal", DayMonth(MinDate(DatesOf(rows))), DayMonth(MaxDate(DatesOf(rows))), ".xlsx">>

-----------------------------------------------------------------------------
(* split_data *)

KEY_79991 == 79991

CODE_4118 == 4118

\* Mutant: the key is not filled down.
Ffill_NotFilled(s) == s

\* Series.ffill(): the nearest preceding value that is not missing.
Ffill(s) ==
    [i \in 1..Len(s) |->
        LET P == {j \in 1..i : NotNA(s[j])}
        IN  IF P = {} THEN NA ELSE s[SetMax(P)]]

\* .astype("Int64").astype(str)
Int64Str(c) == IF IsNA(c) THEN "<NA>" ELSE ToString(c[2])

BlockKey(rows) ==
    LET raw    == [i \in 1..Len(rows) |-> rows[i].InstallmentPaymentExtRef]
        filled == Ffill(raw)
    IN  [i \in 1..Len(rows) |-> Int64Str(ToNumeric(filled[i]))]

\* Mutant: a row without a numeric key counts as a candidate.
IsCandidate_OrMissing(k) == k = ToString(KEY_79991) \/ k = "<NA>"

IsCandidate(k) == k = ToString(KEY_79991)

\* self.df['InstallmentPaymentExtRef'], only_79991["InstallmentProductExtRef"]:
\* KeyError when the file has no such column.
SplitRaises(cols) ==
    ~({"InstallmentPaymentExtRef", "InstallmentProductExtRef"} \subseteq cols)

Only79991(rows) ==
    LET k == BlockKey(rows)
        sel == MaskSelect(rows, [i \in 1..Len(rows) |-> IsCandidate(k[i])])
    IN  [i \in 1..Len(sel) |->
            [sel[i] EXCEPT !.InstallmentProductExtRef = ToNumeric(@)]]

\* Mutant: a row whose filled key is missing is left out of the remainder.
Remainder_DropsMissing(rows) ==
    LET k == BlockKey(rows)
    IN  MaskSelect(rows, [i \in 1..Len(rows) |-> ~IsCandidate(k[i]) /\ k[i] # "<NA>"])

Remainder(rows) ==
    LET k == BlockKey(rows)
    IN  MaskSelect(rows, [i \in 1..Len(rows) |-> ~IsCandidate(k[i])])

\* Mutant: a row without a code closes the segment above it instead of opening
\* a new one.
SegId_ClosesSegment(cand) ==
    [i \in 1..Len(cand) |->
        Cardinality({j \in 1..(i - 1) : IsNA(cand[j].InstallmentProductExtRef)})]

\* code.isna().cumsum()
SegId(cand) ==
    [i \in 1..Len(cand) |->
        Cardinality({j \in 1..i : IsNA(cand[j].InstallmentProductExtRef)})]

\* Mutant: a row is marked by its own code only, not by its segment.
SegHas4118_OwnCode(cand) ==
    [i \in 1..Len(cand) |-> cand[i].InstallmentProductExtRef = Num(CODE_4118)]

\* (code == 4118).groupby(seg_id).transform("any")
SegHas4118(cand) ==
    LET seg == SegId(cand)
    IN  [i \in 1..Len(cand) |->
            \E j \in 1..Len(cand) :
                /\ seg[j] = seg[i]
                /\ cand[j].InstallmentProductExtRef = Num(CODE_4118)]

SplitAdvertisment(rows) ==
    LET cand == Only79991(rows) IN MaskSelect(cand, SegHas4118(cand))

\* Mutant: the unmarked candidate rows come out last row first.
SplitWithoutAdvertisement_Reversed(rows) ==
    LET cand == Only79991(rows)
        has  == SegHas4118(cand)
        sel  == MaskSelect(cand, [i \in 1..Len(cand) |-> ~has[i]])
    IN  [i \in 1..Len(sel) |-> sel[Len(sel) + 1 - i]]

SplitWithoutAdvertisement(rows) ==
    LET cand == Only79991(rows)
        has  == SegHas4118(cand)
    IN  MaskSelect(cand, [i \in 1..Len(cand) |-> ~has[i]])

-----------------------------------------------------------------------------
(* prepare_columns *)

columns_to_drop == {"Installment Ticket Id", "InstallmentValueDate", "Installments"}

\* column_mapping; the output names stand for the Hebrew column titles:
\* transaction, transaction date, product name, debit, credit, debit account,
\* credit account.
column_mapping(c) ==
    CASE c = "InstallmentTransactionId" -> "transaction"
      [] c = "InstallmentDate"          -> "transaction_date"
      [] c = "InstallmentProducts"      -> "product_name"
      [] c = "InstallmentPaymentPrice"  -> "debit"
      [] c = "InstallmentProductPrice"  -> "credit"
      [] c = "InstallmentPaymentExtRef" -> "debit_account"
      [] c = "InstallmentProductExtRef" -> "credit_account"
      [] OTHER                          -> c

RenameColumns(cols) == {column_mapping(c) : c \in cols}

RenameRow(r) ==
    [row              |-> r.row,
     transaction      |-> r.InstallmentTransactionId,
     transaction_date |-> r.InstallmentDate,
     product_name     |-> r.InstallmentProducts,
     debit            |-> r.InstallmentPaymentPrice,
     credit           |-> r.InstallmentProductPrice,
     debit_account    |-> r.InstallmentPaymentExtRef,
     credit_account   |-> r.InstallmentProductExtRef]

RenameRows(rows) == [i \in 1..Len(rows) |-> RenameRow(rows[i])]

OTHER_PAYMENT == "Other Payment"

\* self.rest[self.rest[product name] != 'Other Payment'] (a missing product
\* name is not equal to the literal, so the row stays).
KeepsRestRow(r) == r.product_name # OTHER_PAYMENT

DropOtherPayment(rows, cols) ==
    IF "product_name" \in cols
    THEN MaskSelect(rows, [i \in 1..Len(rows) |-> KeepsRestRow(rows[i])])
    ELSE rows

\* .dt.strftime('%Y-%m-%d')
DateStr(a) == <<"Y-m-d", a[1], a[2], a[3]>>

DateStrLeq(s, t) == DateLeq(<<s[2], s[3], s[4]>>, <<t[2], t[3], t[4]>>)

MaxDateStr(S) == CHOOSE s \in S : \A t \in S : DateStrLeq(t, s)

FormatDates(rows) ==
    [i \in 1..Len(rows) |->
        [rows[i] EXCEPT !.transaction_date = DateStr(@)]]

\* df_obj.insert(0, serial, range(1, len + 1)), then the order date: the
\* largest date text of the bucket, set only when the bucket has rows.
SerialNumber(i) == i

OrderDateOf(rows) == MaxDateStr({rows[i].transaction_date : i \in 1..Len(rows)})

NumberAndDate(rows) ==
    [i \in 1..Len(rows) |->
        [row              |-> rows[i].row,
         serial           |-> SerialNumber(i),
         transaction      |-> rows[i].transaction,
         transaction_date |-> rows[i].transaction_date,
         product_name     |-> rows[i].product_name,
         debit            |-> rows[i].debit,
         credit           |-> rows[i].credit,
         debit_account    |-> rows[i].debit_account,
         credit_account   |-> rows[i].credit_account,
         order_date       |-> OrderDateOf(rows)]]

PreparedColumns(cols, n) ==
    ({"serial"} \cup cols) \cup
    (IF "transaction_date" \in cols /\ n > 0 THEN {"order_date"} ELSE {})

\* Mutant: the "Other Payment" rows are dropped from every bucket.
PrepareBucket_DropsOtherPayment(rows) ==
    NumberAndDate(FormatDates(DropOtherPayment(RenameRows(rows), {"product_name"})))

PrepareBucket(rows) == NumberAndDate(FormatDates(RenameRows(rows)))

PrepareRest(rows, cols) ==
    NumberAndDate(FormatDates(DropOtherPayment(RenameRows(rows), cols)))

-----------------------------------------------------------------------------
(* create_excel_summary *)

ProductNA == ""

\* Text order of the product names of the model, as groupby sorts them.
ProductOrder == <<"Other Payment", "X", "Y">>

ProductRank(p) == CHOOSE i \in 1..Len(ProductOrder) : ProductOrder[i] = p

RECURSIVE Digits(_)
Digits(n) == IF n < 10 THEN <<n>> ELSE Digits(n \div 10) \o <<n % 10>>

\* s < t for two texts of digits.
RECURSIVE LexLess(_, _)
LexLess(s, t) ==
    IF t = <<>> THEN FALSE
    ELSE IF s = <<>> THEN TRUE
    ELSE IF Head(s) # Head(t) THEN Head(s) < Head(t)
    ELSE LexLess(Tail(s), Tail(t))

\* Order of two credit accounts of one column: numbers by value, text as text
\* (non-numeric text sorts after digits).
AccountLess(a, b) ==
    IF a[1] = "num" /\ b[1] = "num" THEN a[2] < b[2]
    ELSE IF a[1] = "numstr" /\ b[1] = "numstr" THEN LexLess(Digits(a[2]), Digits(b[2]))
    ELSE a[1] = "numstr" /\ b[1] = "str"

KeyLess(k, l) ==
    \/ AccountLess(k[1], l[1])
    \/ k[1] = l[1] /\ ProductRank(k[2]) < ProductRank(l[2])

RECURSIVE SortKeys(_)
SortKeys(K) ==
    IF K = {} THEN <<>>
    ELSE LET m == CHOOSE k \in K : \A l \in K \ {k} : KeyLess(k, l)
         IN  <<m>> \o SortKeys(K \ {m})

\* Mutant: rows are not filtered on a positive credit.
IsRevenueRow_AnyCredit(r) == NotNA(r.credit_account) /\ r.credit[1] = "num"

\* df[df[credit account].notna() & (df[credit] > 0)]
IsRevenueRow(r) == NotNA(r.credit_account) /\ r.credit[1] = "num" /\ r.credit[2] > 0

\* The group keys of groupby([credit account, product name]): a row with a
\* missing product name belongs to no group.
RevenueKeys(rows) ==
    {<<rows[i].credit_account, rows[i].product_name>> :
        i \in {j \in 1..Len(rows) : IsRevenueRow(rows[j]) /\ rows[j].product_name # ProductNA}}

GroupCredit(rows, key) ==
    SumSeq([i \in 1..Len(rows) |->
        IF IsRevenueRow(rows[i]) /\ <<rows[i].credit_account, rows[i].product_name>> = key
        THEN rows[i].credit[2] ELSE 0])

ACCOUNT_70001 == 70001

ACCOUNT_70100 == 70100

\* account in [70001, 70100]: equal to one of the two numbers.
IsExcludedAccount(a) == a[1] = "num" /\ a[2] \in {ACCOUNT_70001, ACCOUNT_70100}

\* The keys of revenue_summary, in insertion order.
SummaryKeys(rows) ==
    SortKeys({k \in RevenueKeys(rows) : ~IsExcludedAccount(k[1]) /\ GroupCredit(rows, k) > 0})

\* f"{x:,.0f}": no decimals, ties to the even neighbour, a comma every three digits.
RoundHalfEven(m) ==
    LET q == m \div 1000
        r == m % 1000
    IN  IF r < 500 THEN q
        ELSE IF r > 500 THEN q + 1
        ELSE IF q % 2 = 0 THEN q ELSE q + 1

Pad3(n) ==
    IF n < 10 THEN "00" \o ToString(n)
    ELSE IF n < 100 THEN "0" \o ToString(n)
    ELSE ToString(n)

RECURSIVE Commas(_)
Commas(n) ==
    IF n < 1000 THEN ToString(n)
    ELSE Commas(n \div 1000) \o "," \o Pad3(n % 1000)

FormatAmount(m) ==
    LET n == RoundHalfEven(m)
    IN  IF m < 0 THEN "-" \o Commas(0 - n) ELSE Commas(n)

\* max(all_dates) turned from YYYY-MM-DD into DD/MM/YYYY; '' without rows.
CommandDate(rows) ==
    IF Len(rows) = 0 THEN <<"">>
    ELSE LET d == MaxDateStr({rows[i].transaction_date : i \in 1..Len(rows)})
         IN  <<"d/m/Y", d[4], d[3], d[2]>>

\* str(int(account)) raises ValueError on non-numeric text.
SummaryRaises(rows) == \E i \in 1..Len(SummaryKeys(rows)) : SummaryKeys(rows)[i][1][1] = "str"

\* df[credit] > 0 and groupby([credit account, product name]) on a table with
\* rows: KeyError when the credit or the product-name column is absent.
SummaryKeyError(rows, cols) ==
    Len(rows) > 0 /\ ~({"credit", "product_name"} \subseteq cols)

BlankRow ==
    [order_date |-> <<"">>, debit_account |-> "", credit_account |-> "",
     product_name |-> "", debit_total |-> "", credit_total |-> ""]

RevenueRow(rows, key) ==
    [order_date |-> CommandDate(rows), debit_account |-> "",
     credit_account |-> ToString(key[1][2]), product_name |-> key[2],
     debit_total |-> "", credit_total |-> FormatAmount(GroupCredit(rows, key))]

TOTAL_DEBIT == 0

\* Mutant: the grand total adds up the revenue rows only.
TotalCredit_RevenueOnly(rows) ==
    SumSeq([i \in 1..Len(rows) |->
        IF IsRevenueRow(rows[i]) /\ ~IsExcludedAccount(rows[i].credit_account)
        THEN rows[i].credit[2] ELSE 0])

TotalCredit(rows) == SumSeq([i \in 1..Len(rows) |-> Amount(rows[i].credit)])

TotalRow(rows) ==
    [order_date |-> <<"total", CommandDate(rows)>>, debit_account |-> "",
     credit_account |-> "total(credit)", product_name |-> "grand total",
     debit_total |-> FormatAmount(TOTAL_DEBIT),
     credit_total |-> FormatAmount(TotalCredit(rows))]

ExcelSummary(rows) ==
    LET keys == SummaryKeys(rows)
    IN  <<BlankRow>> \o [i \in 1..Len(keys) |-> RevenueRow(rows, keys[i])] \o <<TotalRow(rows)>>

-----------------------------------------------------------------------------
(* get_balance_validation, get_problematic_transactions *)

hebrew_names == [without_ad |-> "without advertisements",
                 advertisement |-> "advertisements",
                 rest |-> "additional data"]

BucketNames == <<"without_ad", "advertisement", "rest">>

\* 0.01, in thousandths.
TOLERANCE == 10

Abs(x) == IF x < 0 THEN 0 - x ELSE x

RequiredColumns == {"transaction", "debit", "credit"}

\* The groups of df.groupby(transaction): a row with a missing transaction id
\* is in no group.
TransactionIds(rows) ==
    {rows[i].transaction : i \in {j \in 1..Len(rows) : NotNA(rows[j].transaction)}}

GroupDebit(rows, id) ==
    SumSeq([i \in 1..Len(rows) |->
        IF rows[i].transaction = id THEN Amount(rows[i].debit) ELSE 0])

GroupCreditOf(rows, id) ==
    SumSeq([i \in 1..Len(rows) |->
        IF rows[i].transaction = id THEN Amount(rows[i].credit) ELSE 0])

Difference(rows, id) == GroupDebit(rows, id) - GroupCreditOf(rows, id)

\* Mutant: a difference of exactly the tolerance counts as unbalanced.
IsUnbalanced_Inclusive(d) == Abs(d) >= TOLERANCE

IsUnbalanced(d) == Abs(d) > TOLERANCE

UnbalancedIds(rows) == {id \in TransactionIds(rows) : IsUnbalanced(Difference(rows, id))}

\* transaction_balance[debit].sum(), transaction_balance[credit].sum(): the
\* sums of the per-transaction sums.
RECURSIVE SumDebitOver(_, _)
SumDebitOver(S, rows) ==
    IF S = {} THEN 0
    ELSE LET x == CHOOSE y \in S : TRUE
         IN  GroupDebit(rows, x) + SumDebitOver(S \ {x}, rows)

RECURSIVE SumCreditOver(_, _)
SumCreditOver(S, rows) ==
    IF S = {} THEN 0
    ELSE LET x == CHOOSE y \in S : TRUE
         IN  GroupCreditOf(rows, x) + SumCreditOver(S \ {x}, rows)

TotalDebitAllTransactions(rows) == SumDebitOver(TransactionIds(rows), rows)

TotalCreditAllTransactions(rows) == SumCreditOver(TransactionIds(rows), rows)

ColumnSum(rows, col) == SumSeq([i \in 1..Len(rows) |-> Amount(rows[i][col])])

\* Mutant: a bucket with an unbalanced transaction is never flagged balanced.
BalanceOf_FlagFromCount(rows, cols) ==
    IF RequiredColumns \subseteq cols
    THEN LET d == TotalDebitAllTransactions(rows)
             c == TotalCreditAllTransactions(rows)
         IN  [total_debit |-> d, total_credit |-> c, difference |-> d - c,
              balanced |-> Abs(d - c) <= TOLERANCE /\ UnbalancedIds(rows) = {},
              unbalanced_transactions |-> Cardinality(UnbalancedIds(rows))]
    ELSE LET d == ColumnSum(rows, "debit")
             c == ColumnSum(rows, "credit")
         IN  [total_debit |-> d, total_credit |-> c, difference |-> d - c,
              balanced |-> Abs(d - c) <= TOLERANCE]

BalanceOf(rows, cols) ==
    IF RequiredColumns \subseteq cols
    THEN LET d == TotalDebitAllTransactions(rows)
             c == TotalCreditAllTransactions(rows)
         IN  [total_debit |-> d, total_credit |-> c, difference |-> d - c,
              balanced |-> Abs(d - c) <= TOLERANCE,
              unbalanced_transactions |-> Cardinality(UnbalancedIds(rows))]
    ELSE LET d == ColumnSum(rows, "debit")
             c == ColumnSum(rows, "credit")
         IN  [total_debit |-> d, total_credit |-> c, difference |-> d - c,
              balanced |-> Abs(d - c) <= TOLERANCE]

\* The fallback reads df[debit] and df[credit]: KeyError when one is absent.
BalanceRaises(rows, cols) ==
    /\ Len(rows) > 0
    /\ ~(RequiredColumns \subseteq cols)
    /\ ~({"debit", "credit"} \subseteq cols)

URL_BASE == "https://tickets.hapoel.co.il/Transaction2/Details?id="

\* Mutant: one row per unbalanced transaction instead of all its rows.
ProblematicOf_FirstRowOnly(name, rows, cols) ==
    IF Len(rows) > 0 /\ RequiredColumns \subseteq cols
    THEN LET ids == UnbalancedIds(rows)
             sel == MaskSelect(rows, [i \in 1..Len(rows) |->
                        /\ rows[i].transaction \in ids
                        /\ \A j \in 1..(i - 1) : rows[j].transaction # rows[i].transaction])
         IN  [i \in 1..Len(sel) |->
                [row              |-> sel[i].row,
                 serial           |-> sel[i].serial,
                 transaction      |-> sel[i].transaction,
                 transaction_date |-> sel[i].transaction_date,
                 product_name     |-> sel[i].product_name,
                 debit            |-> sel[i].debit,
                 credit           |-> sel[i].credit,
                 debit_account    |-> sel[i].debit_account,
                 credit_account   |-> sel[i].credit_account,
                 sheet            |-> hebrew_names[name],
                 link             |-> <<URL_BASE, sel[i].transaction>>]]
    ELSE <<>>

\* df[df[transaction].isin(unbalanced_transactions)] with the sheet name and
\* the transaction link added.
ProblematicOf(name, rows, cols) ==
    IF Len(rows) > 0 /\ RequiredColumns \subseteq cols
    THEN LET ids == UnbalancedIds(rows)
             sel == MaskSelect(rows, [i \in 1..Len(rows) |-> rows[i].transaction \in ids])
         IN  [i \in 1..Len(sel) |->
                [row              |-> sel[i].row,
                 serial           |-> sel[i].serial,
                 transaction      |-> sel[i].transaction,
                 transaction_date |-> sel[i].transaction_date,
                 product_name     |-> sel[i].product_name,
                 debit            |-> sel[i].debit,
                 credit           |-> sel[i].credit,
                 debit_account    |-> sel[i].debit_account,
                 credit_account   |-> sel[i].credit_account,
                 sheet            |-> hebrew_names[name],
                 link             |-> <<URL_BASE, sel[i].transaction>>]]
    ELSE <<>>

\* Mutant: the rows keep the numbers they have in their buckets.
Renumber_KeepsBucketNumbers(rows) == rows

\* pd.concat(..., ignore_index=True), then the serial column is 1..N.
Renumber(rows) == [i \in 1..Len(rows) |-> [rows[i] EXCEPT !.serial = i]]

\* Mutant: a transaction is judged over its rows in all three buckets together.
CombinedProblematic_AcrossBuckets(wo, adv, rs, cols) ==
    LET ids == UnbalancedIds(wo \o adv \o rs)
        Pick(name, rows) ==
            LET sel == MaskSelect(rows, [i \in 1..Len(rows) |-> rows[i].transaction \in ids])
            IN  [i \in 1..Len(sel) |->
                    [row              |-> sel[i].row,
                     serial           |-> sel[i].serial,
                     transaction      |-> sel[i].transaction,
                     transaction_date |-> sel[i].transaction_date,
                     product_name     |-> sel[i].product_name,
                     debit            |-> sel[i].debit,
                     credit           |-> sel[i].credit,
                     debit_account    |-> sel[i].debit_account,
                     credit_account   |-> sel[i].credit_account,
                     sheet            |-> hebrew_names[name],
                     link             |-> <<URL_BASE, sel[i].transaction>>]]
    IN  Renumber(Pick("without_ad", wo) \o Pick("advertisement", adv) \o Pick("rest", rs))

CombinedProblematic(wo, adv, rs, cols) ==
    Renumber(ProblematicOf("without_ad", wo, cols.without_ad)
             \o ProblematicOf("advertisement", adv, cols.advertisement)
             \o ProblematicOf("rest", rs, cols.rest))

\* The loop of get_balance_validation over the three buckets: one result per
\* non-empty bucket, under its display name.
RowsOf(name, wo, adv, rs) ==
    CASE name = "without_ad"    -> wo
      [] name = "advertisement" -> adv
      [] name = "rest"          -> rs

NonEmpty(wo, adv, rs) ==
    {BucketNames[i] : i \in {j \in 1..3 : Len(RowsOf(BucketNames[j], wo, adv, rs)) > 0}}

ValidationRaises(wo, adv, rs, cols) ==
    \E n \in NonEmpty(wo, adv, rs) : BalanceRaises(RowsOf(n, wo, adv, rs), cols[n])

BalanceValidation(wo, adv, rs, cols) ==
    [h \in {hebrew_names[n] : n \in NonEmpty(wo, adv, rs)} |->
        LET n == CHOOSE m \in NonEmpty(wo, adv, rs) : hebrew_names[m] = h
        IN  BalanceOf(RowsOf(n, wo, adv, rs), cols[n])]

-----------------------------------------------------------------------------
(* save_excel, process *)

OUTPUT_DIR == "static/uploads"

OutputPath(filename) == <<OUTPUT_DIR, filename>>

RestSheetName(rows) ==
    <<"journal", DayMonth(MinDate(DatesOf(rows))), DayMonth(MaxDate(DatesOf(rows))),
      MaxDate(DatesOf(rows))[1]>>

Workbook(rows, wo, adv, rs, summary) ==
    [without_ad |-> wo, advertisement |-> adv, rest_sheet |-> rs,
     rest_sheet_name |-> RestSheetName(rows), Summary |-> summary]

\* A file written at a path replaces what was there.
WriteFile(files, path, content) ==
    [p \in (DOMAIN files) \cup {path} |-> IF p = path THEN content ELSE files[p]]

RemoveFile(files, path) == [p \in (DOMAIN files) \ {path} |-> files[p]]

\* process() on a whole file, as one value: what upload_file gets back.
ProcessRaises(rows) ==
    SummaryRaises(PrepareRest(Remainder(ReadCsv(rows)), RenameColumns(CsvColumns)))

ProcessColumns(wo, adv, rs) ==
    LET all_columns == RenameColumns(CsvColumns \ columns_to_drop)
    IN  [without_ad    |-> PreparedColumns(all_columns, Len(wo)),
         advertisement |-> PreparedColumns(all_columns, Len(adv)),
         rest          |-> PreparedColumns(all_columns, Len(rs))]

ProcessResults(rows) ==
    LET d   == ReadCsv(rows)
        wo  == PrepareBucket(SplitWithoutAdvertisement(d))
        adv == PrepareBucket(SplitAdvertisment(d))
        rs  == PrepareRest(Remainder(d), RenameColumns(CsvColumns))
    IN  [without_ad |-> wo, advertisement |-> adv, rest |-> rs,
         columns |-> ProcessColumns(wo, adv, rs),
         summary |-> ExcelSummary(rs), filename |-> NewFilename(d),
         output_path |-> OutputPath(NewFilename(d)),
         workbook |-> Workbook(d, wo, adv, rs, ExcelSummary(rs))]

-----------------------------------------------------------------------------
(* The processor, one method per action *)

load_data ==
    /\ pc = "new"
    /\ IF LoadRaises(csv_columns)
       THEN pc' = "failed" /\ UNCHANGED <<df, new_filename>>
       ELSE /\ df' = ReadCsv(csv_file)
            /\ new_filename' = NewFilename(ReadCsv(csv_file))
            /\ pc' = "loaded"
    /\ UNCHANGED <<csv_file, csv_columns, without_advertisement, advertisment, rest,
                   columns, excel_summary, output_path, validation, problematic, disk>>
    /\ UNCHANGED webVars

split_data ==
    /\ pc = "loaded"
    /\ IF SplitRaises(csv_columns)
       THEN /\ pc' = "failed"
            /\ UNCHANGED <<advertisment, without_advertisement, rest, columns>>
       ELSE /\ advertisment' = SplitAdvertisment(df)
            /\ without_advertisement' = SplitWithoutAdvertisement(df)
            /\ rest' = Remainder(df)
            /\ columns' = [without_ad |-> csv_columns, advertisement |-> csv_columns,
                           rest |-> csv_columns]
            /\ pc' = "split"
    /\ UNCHANGED <<csv_file, csv_columns, df, new_filename, excel_summary, output_path,
                   validation, problematic, disk>>
    /\ UNCHANGED webVars

prepare_columns ==
    /\ pc = "split"
    /\ without_advertisement' = PrepareBucket(without_advertisement)
    /\ advertisment' = PrepareBucket(advertisment)
    /\ rest' = PrepareRest(rest, RenameColumns(columns.rest))
    /\ LET all_columns == RenameColumns(columns.without_ad \ columns_to_drop)
       IN  columns' =
             [without_ad    |-> PreparedColumns(all_columns, Len(without_advertisement')),
              advertisement |-> PreparedColumns(all_columns, Len(advertisment')),
              rest          |-> PreparedColumns(all_columns, Len(rest'))]
    /\ pc' = "prepared"
    /\ UNCHANGED <<csv_file, csv_columns, df, new_filename, excel_summary, output_path,
                   validation, problematic, disk>>
    /\ UNCHANGED webVars

create_excel_summary ==
    /\ pc = "prepared"
    /\ IF SummaryRaises(rest) \/ SummaryKeyError(rest, columns.rest)
       THEN pc' = "failed" /\ UNCHANGED excel_summary
       ELSE pc' = "summarized" /\ excel_summary' = ExcelSummary(rest)
    /\ UNCHANGED <<csv_file, csv_columns, df, new_filename, without_advertisement, advertisment,
                   rest, columns, output_path, validation, problematic, disk>>
    /\ UNCHANGED webVars

save_excel ==
    /\ pc = "summarized"
    /\ output_path' = OutputPath(new_filename)
    /\ disk' = WriteFile(disk, OutputPath(new_filename),
                         Workbook(df, without_advertisement, advertisment, rest,
                                  excel_summary))
    /\ pc' = "saved"
    /\ UNCHANGED <<csv_file, csv_columns, df, new_filename, without_advertisement, advertisment,
                   rest, columns, excel_summary, validation, problematic>>
    /\ UNCHANGED webVars

get_balance_validation ==
    /\ pc = "saved"
    /\ IF ValidationRaises(without_advertisement, advertisment, rest, columns)
       THEN pc' = "failed" /\ UNCHANGED validation
       ELSE /\ pc' = "validated"
            /\ validation' = BalanceValidation(without_advertisement, advertisment,
                                               rest, columns)
    /\ UNCHANGED <<csv_file, csv_columns, df, new_filename, without_advertisement, advertisment,
                   rest, columns, excel_summary, output_path, problematic, disk>>
    /\ UNCHANGED webVars

get_problematic_transactions ==
    /\ pc = "validated"
    /\ problematic' = CombinedProblematic(without_advertisement, advertisment, rest, columns)
    /\ pc' = "reported"
    /\ UNCHANGED <<csv_file, csv_columns, df, new_filename, without_advertisement, advertisment,
                   rest, columns, excel_summary, output_path, validation, disk>>
    /\ UNCHANGED webVars

Next ==
    \/ load_data
    \/ split_data
    \/ prepare_columns
    \/ create_excel_summary
    \/ save_excel
    \/ get_balance_validation
    \/ get_problematic_transactions

-----------------------------------------------------------------------------
(* upload_file and download_file; each request is a thread of the server *)

UPLOAD_FOLDER == "static/uploads"

UniqueIds == {"0a1b2c3d", "4e5f6a7b"}

UploadPath(unique_id, filename) == <<UPLOAD_FOLDER, unique_id, filename>>

\* file.save(file_path): the request draws its unique id and stores the CSV.
upload_save(r, file, id) ==
    /\ upl[r].pc = "idle"
    /\ upl' = [upl EXCEPT ![r] = [pc |-> "saved", unique_id |-> id, filename |-> file.name,
                                 file_path |-> UploadPath(id, file.name),
                                 results |-> <<>>]]
    /\ disk' = WriteFile(disk, UploadPath(id, file.name), file.rows)
    /\ UNCHANGED <<app_sessions, downloaded>>
    /\ UNCHANGED procVars

\* processor = BookkeepingProcessor(file_path); results = processor.process().
\* The CSV is read from file_path; an exception ends the request with a
\* message.
upload_process(r) ==
    /\ upl[r].pc = "saved"
    /\ IF upl[r].file_path \notin DOMAIN disk
       THEN upl' = [upl EXCEPT ![r].pc = "error"] /\ UNCHANGED disk
       ELSE IF ProcessRaises(disk[upl[r].file_path])
       THEN upl' = [upl EXCEPT ![r].pc = "error"] /\ UNCHANGED disk
       ELSE LET res == ProcessResults(disk[upl[r].file_path])
            IN  /\ upl' = [upl EXCEPT ![r].pc = "processed", ![r].results = res]
                /\ disk' = WriteFile(disk, res.output_path, res.workbook)
    /\ UNCHANGED <<app_sessions, downloaded>>
    /\ UNCHANGED procVars

\* The validation and the report are computed, the session is stored under the
\* unique id and the uploaded CSV is removed.
upload_store(r) ==
    /\ upl[r].pc = "processed"
    /\ LET res == upl[r].results
       IN  app_sessions' =
             WriteFile(app_sessions, upl[r].unique_id,
                 [results |-> res,
                  validation |-> BalanceValidation(res.without_ad, res.advertisement,
                                                   res.rest, res.columns),
                  problematic_transactions |->
                      CombinedProblematic(res.without_ad, res.advertisement, res.rest,
                                          res.columns),
                  original_filename |-> upl[r].filename])
    /\ disk' = RemoveFile(disk, upl[r].file_path)
    /\ upl' = [upl EXCEPT ![r].pc = "done"]
    /\ UNCHANGED downloaded
    /\ UNCHANGED procVars

\* download_file(session_id): send the file at the session's output_path.
download_file(session_id) ==
    /\ session_id \in DOMAIN app_sessions
    /\ app_sessions[session_id].results.output_path \in DOMAIN disk
    /\ downloaded' =
         WriteFile(downloaded, session_id,
             [sent |-> disk[app_sessions[session_id].results.output_path],
              own  |-> app_sessions[session_id].results.workbook])
    /\ UNCHANGED <<upl, app_sessions, disk>>
    /\ UNCHANGED procVars

-----------------------------------------------------------------------------
(* Input tables *)

Date1 == <<2025, 1, 1>>

Date2 == <<2025, 1, 2>>

MkRow(i, key, code, txn, debit, credit, product, date) ==
    [row |-> i,
     InstallmentPaymentExtRef |-> key,
     InstallmentProductExtRef |-> code,
     InstallmentTransactionId |-> txn,
     InstallmentPaymentPrice  |-> debit,
     InstallmentProductPrice  |-> credit,
     InstallmentProducts      |-> product,
     InstallmentDate          |-> date]

\* The table of the rows t, numbered in file order.
Numbered(t) == [i \in 1..Len(t) |-> [t[i] EXCEPT !.row = i]]

\* A processor constructed for a file that holds a table of 1..n rows whose
\* rows follow the shapes of Shapes.
IsInput(file, Shapes, n) ==
    \E k \in 1..n : \E t \in [1..k -> Shapes] : file = Numbered(t)

InitProcessor ==
    /\ pc = "new"
    /\ df = <<>>
    /\ new_filename = <<>>
    /\ without_advertisement = <<>>
    /\ advertisment = <<>>
    /\ rest = <<>>
    /\ columns = [without_ad |-> {}, advertisement |-> {}, rest |-> {}]
    /\ excel_summary = <<>>
    /\ output_path = <<>>
    /\ validation = <<>>
    /\ problematic = <<>>
    /\ disk = <<>>
    /\ upl = <<>>
    /\ app_sessions = <<>>
    /\ downloaded = <<>>

\* Tables that exercise the split: every kind of reference key and code.
MaxSplitRows == 3

SplitKeys == {NA, Text(1), Num(KEY_79991), Num(1000), Text(0)}

SplitCodes == {NA, Num(CODE_4118), Num(5000), Text(0)}

SplitShapes ==
    {MkRow(0, k, c, Num(1), Num(50000), Num(50000), "X", Date1) :
        k \in SplitKeys, c \in SplitCodes}

InitSplit ==
    /\ IsInput(csv_file, SplitShapes, MaxSplitRows)
    /\ csv_columns = CsvColumns
    /\ InitProcessor

SpecSplit == InitSplit /\ [][Next]_vars

\* Tables that exercise the balance check: transactions of one or two rows, in
\* one bucket or spread over buckets, with differences of 0, 0.005, 0.01, 0.02
\* and -0.02. Row 1 is a 4118 candidate row, row 2 a candidate row that opens a
\* new segment, the rows after them are remainder rows (Mixed), or all rows are
\* remainder rows.
MaxBalanceRows == 3

BalanceIds == {NA, Num(1), Num(2)}

BalancePairs ==
    {<<100000, 100000>>, <<100000, 99995>>, <<100000, 99990>>,
     <<100000, 99980>>, <<99980, 100000>>}

BalanceShapes ==
    {MkRow(0, Num(1000), Num(5000), t, Num(p[1]), Num(p[2]), "X", Date1) :
        t \in BalanceIds, p \in BalancePairs}

Mixed(t) ==
    [i \in 1..Len(t) |->
        IF i = 1
        THEN [t[i] EXCEPT !.InstallmentPaymentExtRef = Num(KEY_79991),
                          !.InstallmentProductExtRef = Num(CODE_4118)]
        ELSE IF i = 2
        THEN [t[i] EXCEPT !.InstallmentPaymentExtRef = Num(KEY_79991),
                          !.InstallmentProductExtRef = NA]
        ELSE t[i]]

InitBalance ==
    /\ \E k \in 1..MaxBalanceRows : \E t \in [1..k -> BalanceShapes] :
          \E mixed \in BOOLEAN :
              csv_file = IF mixed THEN Mixed(Numbered(t)) ELSE Numbered(t)
    /\ csv_columns = CsvColumns
    /\ InitProcessor

SpecBalance == InitBalance /\ [][Next]_vars

\* Tables that exercise the summary: remainder rows with a missing, an
\* excluded, an ordinary and a non-numeric credit account, a missing product
\* name, and credits of -30, 0.5 and 50.
MaxSummaryRows == 3

SummaryShapes ==
    {MkRow(0, Num(1000), s[1], Num(1), Num(0), Num(s[3]), s[2], Date1) :
        s \in {<<NA, "X", 50000>>,
               <<Num(ACCOUNT_70001), "X", 50000>>,
               <<Num(ACCOUNT_70100), "X", 50000>>,
               <<Text(0), "X", -30000>>,
               <<Text(0), "X", 50000>>,
               <<Num(5000), "X", -30000>>,
               <<Num(5000), "X", 500>>,
               <<Num(5000), "X", 50000>>,
               <<Num(5000), "Y", 500>>,
               <<Num(5000), "Y", 50000>>,
               <<Num(5000), ProductNA, 50000>>}}

InitSummary ==
    /\ IsInput(csv_file, SummaryShapes, MaxSummaryRows)
    /\ csv_columns = CsvColumns
    /\ InitProcessor

SpecSummary == InitSummary /\ [][Next]_vars

\* Uploads: two files of 1 January 2025 with different rows, one of 1 January
\* 2024 and one of 2 January 2025.
MaxRequests == 2

Requests == 1..MaxRequests

DateLastYear == <<2024, 1, 1>>

WebFiles ==
    {[name |-> "export.csv",
      rows |-> <<MkRow(1, Num(1000), Num(5000), Num(1), Num(s[1]), Num(s[1]), s[2], s[3])>>] :
        s \in {<<50000, "X", Date1>>, <<70000, "Y", Date1>>,
               <<20000, "X", DateLastYear>>, <<30000, "Y", Date2>>}}

InitWeb ==
    /\ csv_file = <<>>
    /\ csv_columns = {}
    /\ pc = "none"
    /\ df = <<>>
    /\ new_filename = <<>>
    /\ without_advertisement = <<>>
    /\ advertisment = <<>>
    /\ rest = <<>>
    /\ columns = [without_ad |-> {}, advertisement |-> {}, rest |-> {}]
    /\ excel_summary = <<>>
    /\ output_path = <<>>
    /\ validation = <<>>
    /\ problematic = <<>>
    /\ disk = <<>>
    /\ upl = [r \in Requests |-> [pc |-> "idle"]]
    /\ app_sessions = <<>>
    /\ downloaded = <<>>

NextWeb ==
    \/ \E r \in Requests, file \in WebFiles, id \in UniqueIds : upload_save(r, file, id)
    \/ \E r \in Requests : upload_process(r)
    \/ \E r \in Requests : upload_store(r)
    \/ \E session_id \in UniqueIds : download_file(session_id)

SpecWeb == InitWeb /\ [][NextWeb]_vars

-----------------------------------------------------------------------------
(* Input tables for prepare_columns *)

\* Tables that exercise prepare_columns: candidate and remainder rows, with
\* and without the code 4118, with the product name "Other Payment" or another,
\* dated 1 or 2 January; the rows of 2 January are out of balance by 0.02.
MaxPrepareRows == 3

PrepareShapes ==
    {MkRow(0, k, c, Num(1), Num(100000),
           Num(IF d = Date2 THEN 99980 ELSE 100000), p, d) :
        k \in {Num(KEY_79991), Num(1000)}, c \in {Num(CODE_4118), NA},
        p \in {"X", OTHER_PAYMENT}, d \in {Date1, Date2}}

InitPrepare ==
    /\ IsInput(csv_file, PrepareShapes, MaxPrepareRows)
    /\ csv_columns = CsvColumns
    /\ InitProcessor

SpecPrepare == InitPrepare /\ [][Next]_vars

-----------------------------------------------------------------------------
(* Input files that lack columns *)

\* Files whose header lacks some of the columns: tables of candidate and
\* remainder rows, in balance or out of balance by 0.02.
MaxColumnsRows == 2

OptionalColumns ==
    {"InstallmentTransactionId", "InstallmentPaymentPrice", "InstallmentProductPrice",
     "InstallmentProducts", "InstallmentDate", "InstallmentProductExtRef",
     "Installments"}

Headers == {CsvColumns \ D : D \in SUBSET OptionalColumns}

ColumnsShapes ==
    {MkRow(0, k, Num(CODE_4118), Num(1), Num(100000), Num(c), "X", Date1) :
        k \in {Num(KEY_79991), Num(1000)}, c \in {100000, 99980}}

\* The rows of a file with the header cols: a column that is not in the header
\* has no cells.
WithColumns(rows, cols) ==
    [i \in 1..Len(rows) |->
        [row |-> rows[i].row,
         InstallmentPaymentExtRef |-> rows[i].InstallmentPaymentExtRef,
         InstallmentProductExtRef |->
             IF "InstallmentProductExtRef" \in cols
             THEN rows[i].InstallmentProductExtRef ELSE NA,
         InstallmentTransactionId |->
             IF "InstallmentTransactionId" \in cols
             THEN rows[i].InstallmentTransactionId ELSE NA,
         InstallmentPaymentPrice |->
             IF "InstallmentPaymentPrice" \in cols
             THEN rows[i].InstallmentPaymentPrice ELSE NA,
         InstallmentProductPrice |->
             IF "InstallmentProductPrice" \in cols
             THEN rows[i].InstallmentProductPrice ELSE NA,
         InstallmentProducts |->
             IF "InstallmentProducts" \in cols
             THEN rows[i].InstallmentProducts ELSE ProductNA,
         InstallmentDate |-> rows[i].InstallmentDate]]

InitColumns ==
    /\ csv_columns \in Headers
    /\ \E k \in 1..MaxColumnsRows : \E t \in [1..k -> ColumnsShapes] :
          csv_file = WithColumns(Numbered(t), csv_columns)
    /\ InitProcessor

SpecColumns == InitColumns /\ [][Next]_vars

-----------------------------------------------------------------------------
(* Properties of split_data *)

BucketRows(name) == RowsOf(name, without_advertisement, advertisment, rest)

\* How many rows of bucket b come from file row i.
Occurrences(b, i) == Cardinality({j \in 1..Len(b) : b[j].row = i})

InBucket(b, i) == \E j \in 1..Len(b) : b[j].row = i

SplitDone == pc = "split"

\* C1: after split_data every input row is in exactly one of the three buckets
\* (in none twice, in no two, none left out) and the three sizes add up to the
\* number of input rows.
C1_Partition ==
    SplitDone =>
        /\ \A i \in 1..Len(df) :
              Occurrences(without_advertisement, i) + Occurrences(advertisment, i)
                + Occurrences(rest, i) = 1
        /\ Len(without_advertisement) + Len(advertisment) + Len(rest) = Len(df)

C1_Witness ==
    /\ SplitDone
    /\ Len(without_advertisement) > 0
    /\ Len(advertisment) > 0
    /\ Len(rest) > 0

\* The file rows whose reference key, read down the file, is 79991: a row with
\* the key itself, or a row with an empty / "nan" key below such a row with only
\* empty keys between them.
IsBlankKey(c) == c = NA \/ c = Text(1)

NearestKeyRow(i) == SetMax({j \in 1..i : ~IsBlankKey(csv_file[j].InstallmentPaymentExtRef)})

HasKeyAbove(i) == \E j \in 1..i : ~IsBlankKey(csv_file[j].InstallmentPaymentExtRef)

CandidateRow(i) ==
    /\ HasKeyAbove(i)
    /\ csv_file[NearestKeyRow(i)].InstallmentPaymentExtRef = Num(KEY_79991)

\* The segment of candidate row i: the candidate rows from the last candidate
\* row at or above i that has no numeric code (or from the first candidate row)
\* down to the next such row.
OpensSegment(i) == CandidateRow(i) /\ csv_file[i].InstallmentProductExtRef[1] # "num"

SameSegment(i, j) ==
    /\ CandidateRow(i)
    /\ CandidateRow(j)
    /\ \A k \in 1..Len(csv_file) :
          OpensSegment(k) => ((k <= i) <=> (k <= j))

SegmentMarked(i) ==
    \E j \in 1..Len(csv_file) :
        SameSegment(i, j) /\ csv_file[j].InstallmentProductExtRef = Num(CODE_4118)

\* C2: among the candidate rows, every row of a segment that holds a 4118 row
\* is in the advertisement bucket, also the rows whose own code is not 4118, and
\* every row of a segment without a 4118 row is in without_advertisement.
C2_SegmentMarking ==
    SplitDone =>
        \A i \in 1..Len(csv_file) :
            CandidateRow(i) =>
                IF SegmentMarked(i)
                THEN InBucket(advertisment, i)
                ELSE InBucket(without_advertisement, i)

C2_Witness ==
    /\ SplitDone
    /\ \E i \in 1..Len(csv_file) :
          /\ CandidateRow(i)
          /\ SegmentMarked(i)
          /\ csv_file[i].InstallmentProductExtRef # Num(CODE_4118)
          /\ InBucket(advertisment, i)
    /\ \E i \in 1..Len(csv_file) :
          CandidateRow(i) /\ ~SegmentMarked(i) /\ InBucket(without_advertisement, i)

\* C3: a row whose key is empty or the text "nan", below a row with a key, is
\* classified by the nearest key above it: a candidate row (in one of the two
\* 79991 buckets) exactly when that key is 79991, and a rest row otherwise.
C3_ForwardFill ==
    SplitDone =>
        \A i \in 1..Len(csv_file) :
            (IsBlankKey(csv_file[i].InstallmentPaymentExtRef) /\ HasKeyAbove(i)) =>
                IF csv_file[NearestKeyRow(i)].InstallmentPaymentExtRef = Num(KEY_79991)
                THEN (InBucket(advertisment, i) \/ InBucket(without_advertisement, i))
                     /\ ~InBucket(rest, i)
                ELSE InBucket(rest, i)
                     /\ ~InBucket(advertisment, i)
                     /\ ~InBucket(without_advertisement, i)

C3_Witness ==
    /\ SplitDone
    /\ \E i, j \in 1..Len(csv_file) :
          /\ csv_file[i].InstallmentPaymentExtRef = NA
          /\ csv_file[j].InstallmentPaymentExtRef = Text(1)
          /\ HasKeyAbove(i)
          /\ HasKeyAbove(j)
          /\ csv_file[NearestKeyRow(i)].InstallmentPaymentExtRef = Num(KEY_79991)
          /\ csv_file[NearestKeyRow(j)].InstallmentPaymentExtRef = Num(KEY_79991)
          /\ ~InBucket(rest, i)
          /\ ~InBucket(rest, j)
-----------------------------------------------------------------------------
(* Properties of get_balance_validation and get_problematic_transactions *)

Validated == pc \in {"validated", "reported"}

BucketSet == {"without_ad", "advertisement", "rest"}

\* Debit minus credit over the rows of a bucket that carry transaction id t.
RowDifference(r) == Amount(r.debit) - Amount(r.credit)

TransactionDifference(rows, t) ==
    SumSeq([i \in 1..Len(rows) |->
        IF rows[i].transaction = t THEN RowDifference(rows[i]) ELSE 0])

IdsOf(rows) == {rows[i].transaction : i \in 1..Len(rows)} \ {NA}

OverTolerance(rows) ==
    {t \in IdsOf(rows) : TransactionDifference(rows, t) > 10
                         \/ TransactionDifference(rows, t) < -10}

IsProblematicRow(rows, j) == rows[j].transaction \in OverTolerance(rows)

ReportedAs(n, r) ==
    {k \in 1..Len(problematic) :
        problematic[k].row = r.row /\ problematic[k].sheet = hebrew_names[n]}

\* C5: the report holds exactly the rows whose transaction is unbalanced within
\* their own bucket: each such row once, tagged with the display name of its
\* bucket, with its values, and nothing else; it is empty when no bucket has an
\* unbalanced transaction.
C5_ProblematicRows ==
    pc = "reported" =>
        /\ \A n \in BucketSet :
              \A j \in 1..Len(BucketRows(n)) :
                  IF IsProblematicRow(BucketRows(n), j)
                  THEN /\ Cardinality(ReportedAs(n, BucketRows(n)[j])) = 1
                       /\ \A k \in ReportedAs(n, BucketRows(n)[j]) :
                             /\ problematic[k].transaction = BucketRows(n)[j].transaction
                             /\ problematic[k].debit = BucketRows(n)[j].debit
                             /\ problematic[k].credit = BucketRows(n)[j].credit
                  ELSE \A k \in 1..Len(problematic) :
                          problematic[k].row # BucketRows(n)[j].row
        /\ \A k \in 1..Len(problematic) :
              \E n \in BucketSet :
                  \E j \in 1..Len(BucketRows(n)) :
                      /\ BucketRows(n)[j].row = problematic[k].row
                      /\ problematic[k].sheet = hebrew_names[n]
        /\ (\A n \in BucketSet : OverTolerance(BucketRows(n)) = {}) => problematic = <<>>

\* One transaction id in two buckets, balanced in advertisment and unbalanced in
\* rest: the report holds the unbalanced row of without_advertisement and the
\* row of rest, each under its bucket's name, and not the row of advertisment.
C5_Witness ==
    /\ pc = "reported"
    /\ Len(rest) = 1
    /\ Len(advertisment) = 1
    /\ Len(without_advertisement) = 1
    /\ advertisment[1].transaction = rest[1].transaction
    /\ Len(problematic) = 2
    /\ problematic[1].sheet = hebrew_names["without_ad"]
    /\ problematic[2].sheet = hebrew_names["rest"]

\* Two rows of one unbalanced transaction are both reported, and the row of a
\* balanced transaction of the same bucket is left out.
C5_WitnessTwoRows ==
    /\ pc = "reported"
    /\ Len(rest) = 3
    /\ rest[1].transaction = rest[2].transaction
    /\ rest[3].transaction # rest[1].transaction
    /\ Len(problematic) = 2
    /\ problematic[1].row = 1
    /\ problematic[2].row = 2

\* C9 (as claimed): total_debit and total_credit are the sums of the debit and
\* the credit column over every row of the bucket, and difference is their
\* difference.
C9_FullSheetTotals ==
    Validated =>
        \A n \in BucketSet :
            Len(BucketRows(n)) > 0 =>
                LET v == validation[hebrew_names[n]]
                    rows == BucketRows(n)
                IN  /\ v.total_debit = SumSeq([i \in 1..Len(rows) |-> Amount(rows[i].debit)])
                    /\ v.total_credit = SumSeq([i \in 1..Len(rows) |-> Amount(rows[i].credit)])
                    /\ v.difference = v.total_debit - v.total_credit
-----------------------------------------------------------------------------
(* Properties of create_excel_summary *)

Summarized == pc \in {"summarized", "saved", "validated", "reported"}

\* The summary rows between the blank first row and the grand-total row.
RevenueRows == {k \in 2..(Len(excel_summary) - 1) : TRUE}

AccountNumber(c) == c[2]

HasAccountNumber(r, n) ==
    r.credit_account[1] \in {"num", "numstr"} /\ AccountNumber(r.credit_account) = n

RestCreditTotal == SumSeq([i \in 1..Len(rest) |-> Amount(rest[i].credit)])

\* C6 (as claimed): a rest row with credit account 70001 or 70100 gives no
\* summary row of its own (no summary row has credit account 70001 or 70100),
\* and its credit is part of the credit total of the grand-total row.
C6_ExcludedAccounts ==
    Summarized =>
        /\ \A k \in RevenueRows :
              excel_summary[k].credit_account \notin {"70001", "70100"}
        /\ excel_summary[Len(excel_summary)].credit_total = FormatAmount(RestCreditTotal)

\* The keys (credit account, product name) of the rest rows that have both.
ManualKeys ==
    {<<rest[i].credit_account, rest[i].product_name>> :
        i \in {j \in 1..Len(rest) :
                 NotNA(rest[j].credit_account) /\ rest[j].product_name # ProductNA}}

RowsOfKey(key) ==
    {i \in 1..Len(rest) : <<rest[i].credit_account, rest[i].product_name>> = key}

\* The credits of all rows of a key, added by hand.
ManualTotal(key) ==
    SumSeq([i \in 1..Len(rest) |-> IF i \in RowsOfKey(key) THEN Amount(rest[i].credit) ELSE 0])

\* The positive credits of the rows of a key, added by hand.
ManualPositiveTotal(key) ==
    SumSeq([i \in 1..Len(rest) |->
        IF i \in RowsOfKey(key) /\ Amount(rest[i].credit) > 0
        THEN Amount(rest[i].credit) ELSE 0])

SummaryRowsOfKey(key) ==
    {k \in RevenueRows :
        /\ excel_summary[k].credit_account = ToString(AccountNumber(key[1]))
        /\ excel_summary[k].product_name = key[2]}

NoExcludedAccount ==
    \A i \in 1..Len(rest) :
        /\ ~HasAccountNumber(rest[i], ACCOUNT_70001)
        /\ ~HasAccountNumber(rest[i], ACCOUNT_70100)


\* C7 (as claimed): with no excluded account among the rest rows, every key
\* whose hand-made total over all its rows is positive has one summary row, its
\* amount is that total (written with no decimals), and there is no other
\* summary row.
C7_ManualAggregation ==
    (Summarized /\ NoExcludedAccount) =>
        /\ \A key \in ManualKeys :
              IF ManualTotal(key) > 0
              THEN /\ Cardinality(SummaryRowsOfKey(key)) = 1
                   /\ \A k \in SummaryRowsOfKey(key) :
                         excel_summary[k].credit_total = FormatAmount(ManualTotal(key))
              ELSE SummaryRowsOfKey(key) = {}
        /\ \A k \in RevenueRows : \E key \in ManualKeys : k \in SummaryRowsOfKey(key)

\* C7 (amended): with no excluded account among the rest rows, every key that
\* has a row with a positive credit has one summary row, its amount is the
\* total of the positive credits of the key's rows written with no decimals
\* (half to even), and there is no other summary row.
C7_PositiveAggregation ==
    (Summarized /\ NoExcludedAccount) =>
        /\ \A key \in ManualKeys :
              IF ManualPositiveTotal(key) > 0
              THEN /\ Cardinality(SummaryRowsOfKey(key)) = 1
                   /\ \A k \in SummaryRowsOfKey(key) :
                         excel_summary[k].credit_total
                             = FormatAmount(ManualPositiveTotal(key))
              ELSE SummaryRowsOfKey(key) = {}
        /\ \A k \in RevenueRows : \E key \in ManualKeys : k \in SummaryRowsOfKey(key)

\* A key with a credit of 50 and one of -30: the summary row shows 50.
C7_Witness ==
    /\ Summarized
    /\ NoExcludedAccount
    /\ Len(rest) = 3
    /\ \E key \in ManualKeys :
          /\ ManualTotal(key) = 20000
          /\ ManualPositiveTotal(key) = 50000
          /\ \E k \in SummaryRowsOfKey(key) : excel_summary[k].credit_total = "50"
    /\ Len(excel_summary) = 4

\* C10: the first row of the summary is blank; the last row is the grand total,
\* its debit total is zero and its credit total is the sum of the credits of all
\* rows of the rest bucket (rows of excluded accounts, rows without a credit
\* account and rows with a non-positive credit included), as the summary writes
\* amounts: without decimals.
C10_GrandTotal ==
    Summarized =>
        /\ excel_summary[1] = BlankRow
        /\ excel_summary[Len(excel_summary)].product_name = "grand total"
        /\ excel_summary[Len(excel_summary)].debit_total = "0"
        /\ excel_summary[Len(excel_summary)].credit_total = FormatAmount(RestCreditTotal)

\* An excluded account (50), a missing account (50) and a negative credit (-30):
\* no summary row of their own, a grand total of 70.
C10_Witness ==
    /\ Summarized
    /\ Len(rest) = 3
    /\ \E i \in 1..3 : HasAccountNumber(rest[i], ACCOUNT_70001) /\ rest[i].credit_account[1] = "num"
    /\ \E i \in 1..3 : IsNA(rest[i].credit_account)
    /\ \E i \in 1..3 : Amount(rest[i].credit) < 0
    /\ Len(excel_summary) = 2
    /\ excel_summary[2].credit_total = "70"
-----------------------------------------------------------------------------
(* Properties of the uploads *)

\* C8 (as claimed): the output paths recorded for two different session ids
\* are distinct, and a download of a session sends the workbook made from that
\* session's own input.
C8_NoOverwrite ==
    /\ \A s1, s2 \in DOMAIN app_sessions :
          s1 # s2 =>
              app_sessions[s1].results.output_path # app_sessions[s2].results.output_path
    /\ \A s \in DOMAIN downloaded : downloaded[s].sent = downloaded[s].own
-----------------------------------------------------------------------------
(* Properties of prepare_columns *)

Prepared == pc \in {"prepared", "summarized", "saved", "validated", "reported"}

\* The file row numbers of a table, in the table's order.
RowIds(b) == [i \in 1..Len(b) |-> b[i].row]

\* C11: prepare_columns takes the rows whose product name is "Other Payment"
\* out of rest and out of no other bucket: rest keeps exactly its rows with
\* another product name, each once, and without_advertisement and advertisment
\* keep the rows split_data gave them, "Other Payment" rows included.
C11_OtherPaymentRestOnly ==
    [][(pc = "split" /\ pc' = "prepared") =>
        /\ RowIds(without_advertisement') = RowIds(without_advertisement)
        /\ RowIds(advertisment') = RowIds(advertisment)
        /\ \A i \in 1..Len(rest) :
              Occurrences(rest', rest[i].row) =
                  IF rest[i].InstallmentProducts = "Other Payment" THEN 0 ELSE 1
        /\ \A j \in 1..Len(rest') : InBucket(rest, rest'[j].row)
        /\ \A j \in 1..Len(rest') : rest'[j].product_name # "Other Payment"
        /\ \A j \in 1..Len(without_advertisement') :
              without_advertisement'[j].product_name =
                  without_advertisement[j].InstallmentProducts
        /\ \A j \in 1..Len(advertisment') :
              advertisment'[j].product_name = advertisment[j].InstallmentProducts]_vars

\* An "Other Payment" row stays in each candidate bucket while one is dropped
\* from rest.
C11_Witness ==
    /\ pc = "prepared"
    /\ \E j \in 1..Len(without_advertisement) :
          without_advertisement[j].product_name = "Other Payment"
    /\ \E j \in 1..Len(advertisment) : advertisment[j].product_name = "Other Payment"
    /\ Len(rest) = 0
    /\ Len(without_advertisement) + Len(advertisment) < Len(df)
\* C12 (as claimed): after prepare_columns the three buckets have the same set
\* of columns, whichever of them are empty.
C12_IdenticalColumns ==
    Prepared =>
        /\ columns.without_ad = columns.advertisement
        /\ columns.advertisement = columns.rest

\* The largest transaction-date text among the rows of a bucket.
IsLatestDate(b, d) ==
    /\ \E j \in 1..Len(b) : b[j].transaction_date = d
    /\ \A j \in 1..Len(b) : DateStrLeq(b[j].transaction_date, d)

\* C13 (as claimed): after prepare_columns every bucket, empty or not, has an
\* order-date column, and every row of a bucket carries the largest
\* transaction-date text of that same bucket.
C13_OrderDate ==
    Prepared =>
        \A n \in BucketSet :
            /\ "order_date" \in columns[n]
            /\ \A j \in 1..Len(BucketRows(n)) :
                  IsLatestDate(BucketRows(n), BucketRows(n)[j].order_date)

\* The part of C13 about the rows: in a bucket with rows the order-date column
\* is present and holds the bucket's own largest date in every row.
C13_BucketLocalOrderDate ==
    Prepared =>
        \A n \in BucketSet :
            Len(BucketRows(n)) > 0 =>
                /\ "order_date" \in columns[n]
                /\ \A j \in 1..Len(BucketRows(n)) :
                      IsLatestDate(BucketRows(n), BucketRows(n)[j].order_date)

\* Two buckets with different order dates, neither the other's.
C13_TwoOrderDates ==
    /\ pc = "prepared"
    /\ Len(rest) > 0
    /\ Len(advertisment) > 1
    /\ rest[1].order_date # advertisment[1].order_date
    /\ advertisment[1].transaction_date # advertisment[1].order_date
\* C14: the sequential-number column of each bucket after prepare_columns is
\* 1, 2, ..., n in row order (for rest, n is the count after the "Other Payment"
\* rows are dropped), and the table of get_problematic_transactions is numbered
\* 1..N over the rows of all buckets together.
C14_SerialNumbers ==
    /\ Prepared =>
          \A n \in BucketSet :
              \A j \in 1..Len(BucketRows(n)) : BucketRows(n)[j].serial = j
    /\ pc = "reported" =>
          \A k \in 1..Len(problematic) : problematic[k].serial = k

\* The second file row is an "Other Payment" remainder row and is dropped; the
\* third is number 1 of rest and number 2 of the report, after a row of a
\* candidate bucket.
C14_Witness ==
    /\ pc = "reported"
    /\ Len(df) = 3
    /\ Len(without_advertisement) + Len(advertisment) = 1
    /\ Len(rest) = 1
    /\ rest[1].row = 3
    /\ rest[1].serial = 1
    /\ Len(problematic) = 2
    /\ problematic[1].sheet # hebrew_names["rest"]
    /\ problematic[2].row = 3
    /\ problematic[2].serial = 2
-----------------------------------------------------------------------------
(* Properties of the fallback of get_balance_validation *)

LacksRequiredColumn(n) == ~({"transaction", "debit", "credit"} \subseteq columns[n])

\* The result of the simple comparison of the column sums, without a count of
\* unbalanced transactions.
IsColumnSumResult(res, rows) ==
    /\ DOMAIN res = {"total_debit", "total_credit", "difference", "balanced"}
    /\ res.total_debit = SumSeq([i \in 1..Len(rows) |-> Amount(rows[i].debit)])
    /\ res.total_credit = SumSeq([i \in 1..Len(rows) |-> Amount(rows[i].credit)])
    /\ res.difference = res.total_debit - res.total_credit
    /\ res.balanced = (res.difference <= 10 /\ res.difference >= -10)

\* C15 (as claimed): get_balance_validation does not fail on a bucket with rows
\* that lacks the transaction-id, the debit or the credit column; it returns
\* for that bucket the comparison of the column sums, without a count of
\* unbalanced transactions.
C15_Fallback ==
    [][(pc = "saved" /\ pc' # "saved") =>
            /\ pc' = "validated"
            /\ \A n \in BucketSet :
                  (Len(BucketRows(n)) > 0 /\ LacksRequiredColumn(n)) =>
                      /\ hebrew_names[n] \in DOMAIN validation'
                      /\ IsColumnSumResult(validation'[hebrew_names[n]], BucketRows(n))]_vars

\* The part of C15 that the code keeps: when the debit and the credit column
\* are there and only the transaction-id column is absent, the call returns the
\* comparison of the column sums for every bucket with rows.
C15_FallbackWithoutTransaction ==
    [][(pc = "saved" /\ pc' # "saved"
            /\ {"debit", "credit"} \subseteq columns.rest) =>
            /\ pc' = "validated"
            /\ \A n \in BucketSet :
                  (Len(BucketRows(n)) > 0 /\ LacksRequiredColumn(n)) =>
                      /\ hebrew_names[n] \in DOMAIN validation'
                      /\ IsColumnSumResult(validation'[hebrew_names[n]], BucketRows(n))]_vars

\* A validation computed by the fallback: a bucket with rows and no
\* transaction-id column has a result without a count.
C15_FallbackReached ==
    /\ pc = "validated"
    /\ Len(rest) > 0
    /\ "transaction" \notin columns.rest
    /\ "unbalanced_transactions" \notin DOMAIN validation[hebrew_names["rest"]]
    /\ ~validation[hebrew_names["rest"]].balanced
-----------------------------------------------------------------------------
(* Properties of the balance across buckets *)

\* The transaction id t has rows in a bucket other than n.
InAnotherBucket(t, n) == \E m \in BucketSet \ {n} : t \in IdsOf(BucketRows(m))

SharedIds(n) == {t \in IdsOf(BucketRows(n)) : InAnotherBucket(t, n)}

\* C16: for a transaction id with rows in more than one bucket, each bucket
\* judges it by its own rows only: the rows of the id in a bucket are reported,
\* under that bucket's name, exactly when the debit and credit of those rows
\* differ by more than 0.01, and the bucket's count of unbalanced transactions
\* is the number of its ids that are unbalanced over the bucket's own rows.
C16_PerBucketBalance ==
    pc = "reported" =>
        \A n \in BucketSet :
            SharedIds(n) # {} =>
                /\ \A j \in 1..Len(BucketRows(n)) :
                      BucketRows(n)[j].transaction \in SharedIds(n) =>
                          (ReportedAs(n, BucketRows(n)[j]) # {}
                              <=> BucketRows(n)[j].transaction \in OverTolerance(BucketRows(n)))
                /\ validation[hebrew_names[n]].unbalanced_transactions =
                      Cardinality(OverTolerance(BucketRows(n)))

\* One transaction id with debit 100.00, credit 99.98 in advertisment and debit
\* 99.98, credit 100.00 in without_advertisement: in balance over the file, out
\* of balance in each bucket, counted and reported in both.
C16_Witness ==
    /\ pc = "reported"
    /\ Len(advertisment) = 1
    /\ Len(without_advertisement) = 1
    /\ Len(rest) = 0
    /\ advertisment[1].transaction = without_advertisement[1].transaction
    /\ advertisment[1].transaction # NA
    /\ RowDifference(advertisment[1]) = 20
    /\ RowDifference(without_advertisement[1]) = -20
    /\ validation[hebrew_names["advertisement"]].unbalanced_transactions = 1
    /\ validation[hebrew_names["without_ad"]].unbalanced_transactions = 1
    /\ Len(problematic) = 2
-----------------------------------------------------------------------------
(* Properties of the row order *)

InFileOrder(b) == \A i, j \in 1..Len(b) : i < j => b[i].row < b[j].row

\* C17: in each of the three buckets, after split_data and after
\* prepare_columns, the rows are in the order they have in the input file.
C17_StableOrder ==
    (pc = "split" \/ Prepared) =>
        /\ InFileOrder(without_advertisement)
        /\ InFileOrder(advertisment)
        /\ InFileOrder(rest)

\* The first and the third file row in without_advertisement, in that order,
\* around a remainder row.
C17_Witness ==
    /\ pc = "prepared"
    /\ RowIds(without_advertisement) = <<1, 3>>
    /\ RowIds(rest) = <<2>>
-----------------------------------------------------------------------------
(* Properties of the keys and the segments of split_data *)

\* C18: every row whose filled-down key is not the number 79991 is in rest and
\* in neither candidate bucket: a row with a text key, a blank row below such a
\* key, and a blank row above the first key of the file.
C18_OtherKeysToRest ==
    SplitDone =>
        \A i \in 1..Len(csv_file) :
            ~CandidateRow(i) =>
                /\ Occurrences(rest, i) = 1
                /\ ~InBucket(advertisment, i)
                /\ ~InBucket(without_advertisement, i)

\* A blank key above the first key, a text key, and a blank key below the
\* text key: all three rows are in rest.
C18_Witness ==
    /\ SplitDone
    /\ Len(csv_file) = 3
    /\ csv_file[1].InstallmentPaymentExtRef = NA
    /\ csv_file[2].InstallmentPaymentExtRef = Text(0)
    /\ IsBlankKey(csv_file[3].InstallmentPaymentExtRef)
    /\ RowIds(rest) = <<1, 2, 3>>
\* No candidate row after i, up to and including j, opens a segment.
NoOpenerBetween(i, j) == \A k \in (i + 1)..j : ~OpensSegment(k)

\* C19: segments run over the candidate rows only. Two candidate rows with no
\* segment-opening candidate row after the first up to the second are in the
\* same bucket, whatever remainder rows lie between them; and a candidate row
\* without a numeric code is in advertisment exactly when a 4118 row follows it
\* before the next such row, whatever comes before it.
C19_Segments ==
    SplitDone =>
        /\ \A i, j \in 1..Len(csv_file) :
              (i < j /\ CandidateRow(i) /\ CandidateRow(j) /\ NoOpenerBetween(i, j)) =>
                  (InBucket(advertisment, i) <=> InBucket(advertisment, j))
        /\ \A i \in 1..Len(csv_file) :
              OpensSegment(i) =>
                  (InBucket(advertisment, i) <=>
                      \E j \in (i + 1)..Len(csv_file) :
                          /\ CandidateRow(j)
                          /\ NoOpenerBetween(i, j)
                          /\ csv_file[j].InstallmentProductExtRef = Num(CODE_4118))

\* A candidate row without a code, a 4118 row, a candidate row without a code:
\* the first goes to advertisment with the 4118 row, the third does not.
C19_Witness ==
    /\ SplitDone
    /\ Len(csv_file) = 3
    /\ \A i \in 1..3 : CandidateRow(i)
    /\ csv_file[1].InstallmentProductExtRef = NA
    /\ csv_file[2].InstallmentProductExtRef = Num(CODE_4118)
    /\ csv_file[3].InstallmentProductExtRef = NA
    /\ RowIds(advertisment) = <<1, 2>>
    /\ RowIds(without_advertisement) = <<3>>

\* A 4118 row, a remainder row, a candidate row with another code: the
\* remainder row does not end the segment, both candidate rows are in
\* advertisment.
C19_AcrossRemainder ==
    /\ SplitDone
    /\ Len(csv_file) = 3
    /\ csv_file[1].InstallmentProductExtRef = Num(CODE_4118)
    /\ csv_file[3].InstallmentProductExtRef = Num(5000)
    /\ RowIds(advertisment) = <<1, 3>>
    /\ RowIds(rest) = <<2>>
\* A candidate row whose code is a text that is no number opens a segment as a
\* row without a code does.
C19_TextCodeOpens ==
    /\ SplitDone
    /\ Len(csv_file) = 3
    /\ \A i \in 1..3 : CandidateRow(i)
    /\ csv_file[1].InstallmentProductExtRef = Num(CODE_4118)
    /\ csv_file[2].InstallmentProductExtRef = Text(0)
    /\ csv_file[3].InstallmentProductExtRef = Num(5000)
    /\ RowIds(advertisment) = <<1>>
    /\ RowIds(without_advertisement) = <<2, 3>>
-----------------------------------------------------------------------------
(* Properties of the balanced flag *)

\* The rows of the report that come from bucket n.
ReportedFrom(n) == {k \in 1..Len(problematic) : problematic[k].sheet = hebrew_names[n]}

\* C20: the flag balanced of a bucket is true exactly when the reported
\* total_debit and total_credit differ by at most 0.01, whatever the count of
\* unbalanced transactions; and for a bucket flagged balanced the report still
\* holds every row of its unbalanced transactions.
C20_BalancedFlag ==
    /\ Validated =>
          \A h \in DOMAIN validation :
              validation[h].balanced <=>
                  (/\ validation[h].total_debit - validation[h].total_credit <= 10
                   /\ validation[h].total_credit - validation[h].total_debit <= 10)
    /\ pc = "reported" =>
          \A n \in BucketSet :
              (Len(BucketRows(n)) > 0 /\ validation[hebrew_names[n]].balanced) =>
                  Cardinality(ReportedFrom(n)) =
                      Cardinality({j \in 1..Len(BucketRows(n)) :
                                      IsProblematicRow(BucketRows(n), j)})

\* Two transactions of rest, out of balance by 0.02 and by -0.02: the totals
\* agree, the flag is balanced, the count is 2 and both rows are reported.
C20_Witness ==
    /\ pc = "reported"
    /\ Len(rest) = 2
    /\ rest[1].transaction # rest[2].transaction
    /\ RowDifference(rest[1]) = 20
    /\ RowDifference(rest[2]) = -20
    /\ validation[hebrew_names["rest"]].balanced
    /\ validation[hebrew_names["rest"]].unbalanced_transactions = 2
    /\ Cardinality(ReportedFrom("rest")) = 2

====
